---------------------------- MODULE Spec2Model ----------------------------
(***************************************************************************)
(* cloud-pricing-monitor: the pricing normalizers (aws.go, gcp.go), the    *)
(* metric sink (metrics.go) and the fetch scheduler (monitor.go, main.go). *)
(*                                                                         *)
(* Fixed point.  The Go code computes in float64.  Here money is an        *)
(* integer number of nano-dollars (the resolution of the billing           *)
(* catalog's Money type) and memory is an integer number of 1/MemDen GB,   *)
(* which represents every memory ratio of parseMachineType exactly.        *)
(***************************************************************************)
EXTENDS Integers, Sequences, FiniteSets, TLC

(***************************************************************************)
(* Bounds of the model.                                                    *)
(***************************************************************************)
\* the ticker delivers at most MaxTicks ticks
MaxTicks == 2
\* FetchPricing is run at most MaxRuns times against one input
MaxRuns == 2
\* a catalog has at most MaxPages pages
MaxPages == 2

(***************************************************************************)
(* Program constants.                                                      *)
(***************************************************************************)
\* gcp.go: float64(nanos) / 1e9
NanosPerUnit == 1000000000
\* memory is kept in 1/MemDen GB: 3.75 = 75/20, 6.5 = 130/20, 0.9 = 18/20, ...
MemDen == 20
\* aws.go parseMemory: 1.073741824 = 2097152 / 1953125
GiBNum == 2097152
GiBDen == 1953125

(***************************************************************************)
(* Results of a Go function returning (value, error).                      *)
(***************************************************************************)
NoPricing == [Provider |-> "", Region |-> "", InstanceType |-> "",
              TotalCost |-> 0, MemoryGB |-> 0, VCPUs |-> 0]

Ok(p) == [ok |-> TRUE, err |-> "", p |-> p]

Err(msg) == [ok |-> FALSE, err |-> msg, p |-> NoPricing]

\* the orders in which a Go `range` may visit the keys of a map
Perms(S) ==
    {s \in [1..Cardinality(S) -> S] : \A i, j \in 1..Cardinality(S) : i # j => s[i] # s[j]}

(***************************************************************************)
(* aws.go                                                                  *)
(*                                                                         *)
(* A GetProducts response is  [err, priceList]; a price-list document is   *)
(*   [shape, memory, vcpu, onDemand]                                       *)
(* shape names the first structural check the document fails ("ok" when    *)
(* it passes them all); onDemand maps term keys to terms; a term is        *)
(*   [hasDims, dims]                                                       *)
(* hasDims is FALSE when the term is not an object or has no               *)
(* priceDimensions object; dims maps dimension keys to the dimension's     *)
(* pricePerUnit.USD, which is NoUSD when any of the three type assertions  *)
(* on the way to the string fails.  memory is [n, qty, unit]: the number   *)
(* of fields strings.Fields finds, the first as ParseFloat reads it (in    *)
(* 1/MemDen GB) and the second.                                            *)
(***************************************************************************)
NoUSD == "NoUSD"

\* strconv.ParseFloat(s, 64) on the strings the model's documents hold:
\* a syntax error returns 0 and the error
ParseFloat(s) ==
    CASE s = "0.0416"       -> [val |-> 41600000,  err |-> FALSE]
      [] s = "0.0832"       -> [val |-> 83200000,  err |-> FALSE]
      [] s = "0.0000000000" -> [val |-> 0,         err |-> FALSE]
      [] s = "-0.0416"      -> [val |-> -41600000, err |-> FALSE]
      [] OTHER              -> [val |-> 0,         err |-> TRUE]

\* strconv.Atoi(s): 0 on error
Atoi(s) ==
    CASE s = "2" -> [val |-> 2, err |-> FALSE]
      [] s = "4" -> [val |-> 4, err |-> FALSE]
      [] s = "0" -> [val |-> 0, err |-> FALSE]
      [] OTHER   -> [val |-> 0, err |-> TRUE]

\* strings.ToUpper on the unit tokens the model's documents hold
ToUpper(s) ==
    CASE s = "GiB" -> "GIB"
      [] s = "gib" -> "GIB"
      [] s = "GB"  -> "GB"
      [] OTHER     -> s

\* parseMemory
parseMemory(memStr) ==
    IF memStr.n # 2 THEN [val |-> 0, err |-> TRUE]
    ELSE IF memStr.qty.err THEN [val |-> 0, err |-> TRUE]
    ELSE IF ToUpper(memStr.unit) = "GIB"
         THEN [val |-> (memStr.qty.val * GiBNum) \div GiBDen, err |-> FALSE]
         ELSE [val |-> memStr.qty.val, err |-> FALSE]

\* the inner loop, lines 148-170: ds is the order in which the range visits
\* the dimension keys of term t, hp the value of hourlyPrice on entry
RECURSIVE DimLoop(_, _, _)
DimLoop(t, ds, hp) ==
    IF ds = <<>> THEN hp
    ELSE LET usd == t.dims[Head(ds)] IN
         IF usd = NoUSD THEN DimLoop(t, Tail(ds), hp)
         ELSE LET r == ParseFloat(usd) IN
              IF r.err THEN DimLoop(t, Tail(ds), r.val)
              ELSE r.val

\* what the outer loop does after the inner loop of one term: line 172
TermBreaks(hp) == hp > 0

\* the outer loop, lines 137-175: ts is the order in which the range visits
\* the term keys, dorder[k] the order for the dimensions of term k
RECURSIVE TermLoop(_, _, _, _)
TermLoop(od, ts, dorder, hp) ==
    IF ts = <<>> THEN hp
    ELSE LET t == od[Head(ts)] IN
         IF ~t.hasDims THEN TermLoop(od, Tail(ts), dorder, hp)
         ELSE LET hp2 == DimLoop(t, dorder[Head(ts)], hp) IN
              IF TermBreaks(hp2) THEN hp2
              ELSE TermLoop(od, Tail(ts), dorder, hp2)

\* line 177: the price the loops left is rejected
NoValidPricing(hp) == hp = 0

\* the iteration orders a run of FetchPricing may take over document doc
TermOrders(doc) == Perms(DOMAIN doc.onDemand)

DimOrdersOf(t) == IF ~t.hasDims THEN {<<>>} ELSE Perms(DOMAIN t.dims)

DimOrders(doc) ==
    LET D == DOMAIN doc.onDemand IN
    {f \in [D -> UNION {DimOrdersOf(doc.onDemand[k]) : k \in D}] :
        \A k \in D : f[k] \in DimOrdersOf(doc.onDemand[k])}

\* AWSPricingFetcher.FetchPricing on response resp, its map ranges taking
\* the orders torder (terms) and dorder (dimensions of each term)
AWSFetchPricing(region, instanceType, resp, torder, dorder) ==
    IF resp.err THEN Err("failed to get AWS pricing")
    ELSE IF Len(resp.priceList) = 0 THEN Err("no pricing data found")
    ELSE LET doc == resp.priceList[1] IN
         CASE doc.shape = "badjson"      -> Err("failed to parse pricing data")
           [] doc.shape = "noproduct"    -> Err("invalid product data structure")
           [] doc.shape = "noattributes" -> Err("invalid attributes data structure")
           [] doc.shape = "noterms"      -> Err("invalid terms data structure")
           [] doc.shape = "noondemand"   -> Err("no OnDemand pricing found")
           [] OTHER ->
              LET hourlyPrice == TermLoop(doc.onDemand, torder, dorder, 0) IN
              IF NoValidPricing(hourlyPrice) THEN Err("no valid pricing found")
              ELSE Ok([Provider |-> "aws", Region |-> region,
                       InstanceType |-> instanceType,
                       TotalCost |-> hourlyPrice,
                       MemoryGB |-> parseMemory(doc.memory).val,
                       VCPUs |-> Atoi(doc.vcpu).val])

(***************************************************************************)
(* gcp.go                                                                  *)
(*                                                                         *)
(* Strings that the code splits, scans or searches are sequences of        *)
(* one-character strings; Chars gives the sequence of each string literal  *)
(* the model uses.  A SKU is [Description, ServiceRegions, PricingInfo],   *)
(* PricingInfo a sequence of pricing records, each the sequence            *)
(* PricingExpression.TieredRates of [Units, Nanos] unit prices.  A catalog *)
(* is [pages, errAt]: the pages ListSkus returns in order, and the index   *)
(* of the page whose request fails (0 when none does).                     *)
(***************************************************************************)
Chars(s) ==
    CASE s = "Spot Preemptible N2 Instance Core running in Americas" -> <<"S", "p", "o", "t", " ", "P", "r", "e", "e", "m", "p", "t", "i", "b", "l", "e", " ", "N", "2", " ", "I", "n", "s", "t", "a", "n", "c", "e", " ", "C", "o", "r", "e", " ", "r", "u", "n", "n", "i", "n", "g", " ", "i", "n", " ", "A", "m", "e", "r", "i", "c", "a", "s">>
      [] s = "e2-micro" -> <<"e", "2", "-", "m", "i", "c", "r", "o">>
      [] s = "e2-small" -> <<"e", "2", "-", "s", "m", "a", "l", "l">>
      [] s = "e2-medium" -> <<"e", "2", "-", "m", "e", "d", "i", "u", "m">>
      [] s = "f1-micro" -> <<"f", "1", "-", "m", "i", "c", "r", "o">>
      [] s = "g1-small" -> <<"g", "1", "-", "s", "m", "a", "l", "l">>
      [] s = "n2-standard-2" -> <<"n", "2", "-", "s", "t", "a", "n", "d", "a", "r", "d", "-", "2">>
      [] s = "n2-highmem-4" -> <<"n", "2", "-", "h", "i", "g", "h", "m", "e", "m", "-", "4">>
      [] s = "n1-highcpu-2" -> <<"n", "1", "-", "h", "i", "g", "h", "c", "p", "u", "-", "2">>
      [] s = "c3-custom-2x" -> <<"c", "3", "-", "c", "u", "s", "t", "o", "m", "-", "2", "x">>
      [] s = "n2-standard" -> <<"n", "2", "-", "s", "t", "a", "n", "d", "a", "r", "d">>
      [] s = "e2" -> <<"e", "2">>
      [] s = "n2-standard-0" -> <<"n", "2", "-", "s", "t", "a", "n", "d", "a", "r", "d", "-", "0">>
      [] s = "n2-standard-x" -> <<"n", "2", "-", "s", "t", "a", "n", "d", "a", "r", "d", "-", "x">>
      [] s = "N2 Instance Core running in Americas" -> <<"N", "2", " ", "I", "n", "s", "t", "a", "n", "c", "e", " ", "C", "o", "r", "e", " ", "r", "u", "n", "n", "i", "n", "g", " ", "i", "n", " ", "A", "m", "e", "r", "i", "c", "a", "s">>
      [] s = "N2 Instance Ram running in Americas" -> <<"N", "2", " ", "I", "n", "s", "t", "a", "n", "c", "e", " ", "R", "a", "m", " ", "r", "u", "n", "n", "i", "n", "g", " ", "i", "n", " ", "A", "m", "e", "r", "i", "c", "a", "s">>
      [] s = "E2 Instance Core running in Americas" -> <<"E", "2", " ", "I", "n", "s", "t", "a", "n", "c", "e", " ", "C", "o", "r", "e", " ", "r", "u", "n", "n", "i", "n", "g", " ", "i", "n", " ", "A", "m", "e", "r", "i", "c", "a", "s">>
      [] s = "E2 Instance Ram running in Americas" -> <<"E", "2", " ", "I", "n", "s", "t", "a", "n", "c", "e", " ", "R", "a", "m", " ", "r", "u", "n", "n", "i", "n", "g", " ", "i", "n", " ", "A", "m", "e", "r", "i", "c", "a", "s">>
      [] s = "N2 Custom Instance Core running in Americas" -> <<"N", "2", " ", "C", "u", "s", "t", "o", "m", " ", "I", "n", "s", "t", "a", "n", "c", "e", " ", "C", "o", "r", "e", " ", "r", "u", "n", "n", "i", "n", "g", " ", "i", "n", " ", "A", "m", "e", "r", "i", "c", "a", "s">>
      [] s = "Memory-optimized N2 Instance Core running in Americas" -> <<"M", "e", "m", "o", "r", "y", "-", "o", "p", "t", "i", "m", "i", "z", "e", "d", " ", "N", "2", " ", "I", "n", "s", "t", "a", "n", "c", "e", " ", "C", "o", "r", "e", " ", "r", "u", "n", "n", "i", "n", "g", " ", "i", "n", " ", "A", "m", "e", "r", "i", "c", "a", "s">>
      [] s = "core" -> <<"c", "o", "r", "e">>
      [] s = "vcpu" -> <<"v", "c", "p", "u">>
      [] s = "ram" -> <<"r", "a", "m">>
      [] s = "memory" -> <<"m", "e", "m", "o", "r", "y">>
      [] s = "e2 instance" -> <<"e", "2", " ", "i", "n", "s", "t", "a", "n", "c", "e">>
      [] s = "n1 predefined" -> <<"n", "1", " ", "p", "r", "e", "d", "e", "f", "i", "n", "e", "d">>
      [] s = "n1 instance" -> <<"n", "1", " ", "i", "n", "s", "t", "a", "n", "c", "e">>
      [] s = "n2 instance" -> <<"n", "2", " ", "i", "n", "s", "t", "a", "n", "c", "e">>
      [] s = "n2d instance" -> <<"n", "2", "d", " ", "i", "n", "s", "t", "a", "n", "c", "e">>
      [] s = "n4 instance" -> <<"n", "4", " ", "i", "n", "s", "t", "a", "n", "c", "e">>
      [] s = "n4d instance" -> <<"n", "4", "d", " ", "i", "n", "s", "t", "a", "n", "c", "e">>
      [] s = " instance" -> <<" ", "i", "n", "s", "t", "a", "n", "c", "e">>
      [] s = "f1" -> <<"f", "1">>
      [] s = "g1" -> <<"g", "1">>
      [] s = "n1" -> <<"n", "1">>
      [] s = "n2" -> <<"n", "2">>
      [] s = "n2d" -> <<"n", "2", "d">>
      [] s = "n4" -> <<"n", "4">>
      [] s = "n4d" -> <<"n", "4", "d">>
      [] s = "c2" -> <<"c", "2">>
      [] s = "c2d" -> <<"c", "2", "d">>
      [] s = "c3" -> <<"c", "3">>
      [] s = "standard" -> <<"s", "t", "a", "n", "d", "a", "r", "d">>
      [] s = "highmem" -> <<"h", "i", "g", "h", "m", "e", "m">>
      [] s = "highcpu" -> <<"h", "i", "g", "h", "c", "p", "u">>
      [] s = "-" -> <<"-">>
      [] OTHER -> <<>>

ToLowerChar(c) ==
    CASE c = "A" -> "a"
      [] c = "B" -> "b"
      [] c = "C" -> "c"
      [] c = "D" -> "d"
      [] c = "E" -> "e"
      [] c = "F" -> "f"
      [] c = "G" -> "g"
      [] c = "H" -> "h"
      [] c = "I" -> "i"
      [] c = "J" -> "j"
      [] c = "K" -> "k"
      [] c = "L" -> "l"
      [] c = "M" -> "m"
      [] c = "N" -> "n"
      [] c = "O" -> "o"
      [] c = "P" -> "p"
      [] c = "Q" -> "q"
      [] c = "R" -> "r"
      [] c = "S" -> "s"
      [] c = "T" -> "t"
      [] c = "U" -> "u"
      [] c = "V" -> "v"
      [] c = "W" -> "w"
      [] c = "X" -> "x"
      [] c = "Y" -> "y"
      [] c = "Z" -> "z"
      [] OTHER -> c

\* strings.ToLower
ToLower(s) == [i \in 1..Len(s) |-> ToLowerChar(s[i])]

\* strings.Contains
Contains(s, substr) ==
    \E i \in 0..(Len(s) - Len(substr)) : SubSeq(s, i + 1, i + Len(substr)) = substr

\* slices.Contains, and the loop of matchesMemorySku over ServiceRegions
SliceContains(seq, x) == \E i \in 1..Len(seq) : seq[i] = x

\* strings.Split(s, sep) for a one-character sep: cur is the token being read
RECURSIVE SplitFrom(_, _, _)
SplitFrom(s, sep, cur) ==
    IF s = <<>> THEN <<cur>>
    ELSE IF Head(s) = sep THEN <<cur>> \o SplitFrom(Tail(s), sep, <<>>)
    ELSE SplitFrom(Tail(s), sep, Append(cur, Head(s)))

Split(s, sep) == SplitFrom(s, sep, <<>>)

Digits == {"0", "1", "2", "3", "4", "5", "6", "7", "8", "9"}

DigitVal(c) ==
    CASE c = "0" -> 0 [] c = "1" -> 1 [] c = "2" -> 2 [] c = "3" -> 3 [] c = "4" -> 4
      [] c = "5" -> 5 [] c = "6" -> 6 [] c = "7" -> 7 [] c = "8" -> 8 [] c = "9" -> 9

\* the value of the longest prefix of s made of digits, acc the value so far
RECURSIVE ScanDigits(_, _)
ScanDigits(s, acc) ==
    IF s # <<>> /\ Head(s) \in Digits
    THEN ScanDigits(Tail(s), 10 * acc + DigitVal(Head(s)))
    ELSE acc

RECURSIVE SkipSpace(_)
SkipSpace(s) == IF s # <<>> /\ Head(s) = " " THEN SkipSpace(Tail(s)) ELSE s

\* fmt.Sscanf(tok, "%d", &n): leading space is skipped, a sign is accepted,
\* then the longest run of digits is read; no digit is an error, and what
\* follows the digits is left unread without an error
Sscanf(tok) ==
    LET s == SkipSpace(tok)
        neg == s # <<>> /\ Head(s) = "-"
        body == IF s # <<>> /\ Head(s) \in {"+", "-"} THEN Tail(s) ELSE s
    IN  IF body = <<>> \/ Head(body) \notin Digits
        THEN [val |-> 0, err |-> TRUE]
        ELSE [val |-> IF neg THEN 0 - ScanDigits(body, 0) ELSE ScanDigits(body, 0),
              err |-> FALSE]

Shape(family, vcpus, memoryGB) ==
    [ok |-> TRUE, err |-> "", family |-> family, vcpus |-> vcpus, memoryGB |-> memoryGB]

ShapeErr(msg) ==
    [ok |-> FALSE, err |-> msg, family |-> <<>>, vcpus |-> 0, memoryGB |-> 0]

\* parseMachineType; memoryGB in 1/MemDen GB
parseMachineType(machineType) ==
    LET parts == Split(machineType, "-") IN
    IF Len(parts) < 2 THEN ShapeErr("invalid machine type format")
    ELSE
    LET family == parts[1]
        machineClass == parts[2]
    IN
    CASE machineType = Chars("e2-micro")  -> Shape(Chars("e2"), 2, 20)
      [] machineType = Chars("e2-small")  -> Shape(Chars("e2"), 2, 40)
      [] machineType = Chars("e2-medium") -> Shape(Chars("e2"), 2, 80)
      [] machineType = Chars("f1-micro")  -> Shape(Chars("f1"), 1, 12)
      [] machineType = Chars("g1-small")  -> Shape(Chars("g1"), 1, 34)
      [] OTHER ->
         LET scan == IF Len(parts) >= 3 THEN Sscanf(parts[3])
                     ELSE [val |-> 0, err |-> FALSE]
             vcpuCount == scan.val
         IN
         IF scan.err THEN ShapeErr("invalid vCPU count in machine type")
         ELSE IF vcpuCount = 0 THEN ShapeErr("could not determine vCPU count")
         ELSE
         LET memory ==
                CASE machineClass = Chars("standard") -> vcpuCount * 75
                  [] machineClass = Chars("highmem")  -> vcpuCount * 130
                  [] machineClass = Chars("highcpu")  -> vcpuCount * 18
                  [] OTHER                            -> vcpuCount * 80
         IN Shape(family, vcpuCount, memory)

\* the switch on family of matchesVCPUSku and matchesMemorySku
FamilyMatch(desc, family) ==
    CASE family = Chars("e2") -> Contains(desc, Chars("e2 instance"))
      [] family = Chars("n1") ->
            Contains(desc, Chars("n1 predefined")) \/ Contains(desc, Chars("n1 instance"))
      [] family \in {Chars("n2"), Chars("n2d")} ->
            Contains(desc, Chars("n2 instance")) \/ Contains(desc, Chars("n2d instance"))
      [] family \in {Chars("n4"), Chars("n4d")} ->
            Contains(desc, Chars("n4 instance")) \/ Contains(desc, Chars("n4d instance"))
      [] family \in {Chars("c2"), Chars("c2d"), Chars("c3")} ->
            Contains(desc, family \o Chars(" instance"))
      [] OTHER -> Contains(desc, family)

matchesVCPUSku(sku, region, family) ==
    LET desc == ToLower(Chars(sku.Description)) IN
    IF ~Contains(desc, Chars("core")) /\ ~Contains(desc, Chars("vcpu")) THEN FALSE
    ELSE IF ~FamilyMatch(desc, family) THEN FALSE
    ELSE SliceContains(sku.ServiceRegions, region)

matchesMemorySku(sku, region, family) ==
    LET desc == ToLower(Chars(sku.Description)) IN
    IF ~Contains(desc, Chars("ram")) /\ ~Contains(desc, Chars("memory")) THEN FALSE
    ELSE IF ~FamilyMatch(desc, family) THEN FALSE
    ELSE SliceContains(sku.ServiceRegions, region)

\* len(sku.PricingInfo) > 0 && len(...TieredRates) > 0
HasRate(sku) == Len(sku.PricingInfo) > 0 /\ Len(sku.PricingInfo[1]) > 0

\* float64(units) + float64(nanos)/1e9 of the first tier, in nano-dollars
UnitPrice(sku) ==
    sku.PricingInfo[1][1].Units * NanosPerUnit + sku.PricingInfo[1][1].Nanos

Matches(dim, sku, region, family) ==
    IF dim = "core" THEN matchesVCPUSku(sku, region, family)
    ELSE matchesMemorySku(sku, region, family)

\* the callback handed to call.Pages, on one page: price is the captured
\* variable on entry, the value is the captured variable when the callback
\* returns (it returns nil on every path)
RECURSIVE PageCallback(_, _, _, _, _)
PageCallback(skus, dim, region, family, price) ==
    IF skus = <<>> THEN price
    ELSE IF Matches(dim, Head(skus), region, family) /\ HasRate(Head(skus))
         THEN UnitPrice(Head(skus))
         ELSE PageCallback(Tail(skus), dim, region, family, price)

\* call.Pages(ctx, f): requests page k, returns the request's error, else
\* calls f on the page and goes on to the next page as long as f returns
\* nil and a next page exists
RECURSIVE Pages(_, _, _, _, _, _)
Pages(catalog, k, dim, region, family, price) ==
    IF k > Len(catalog.pages) THEN [err |-> FALSE, price |-> price]
    ELSE IF catalog.errAt = k THEN [err |-> TRUE, price |-> price]
    ELSE Pages(catalog, k + 1, dim, region, family,
               PageCallback(catalog.pages[k], dim, region, family, price))

\* a lookup without the test of price == 0
LookupResultKeepsZero(r) ==
    IF r.err THEN [err |-> "catalog request failed", price |-> 0]
    ELSE [err |-> "", price |-> r.price]

\* lines 101-109 and 132-140: the result of a lookup whose Pages call
\* returned r
LookupResult(r) ==
    IF r.err THEN [err |-> "catalog request failed", price |-> 0]
    ELSE IF r.price = 0 THEN [err |-> "no pricing found", price |-> 0]
    ELSE [err |-> "", price |-> r.price]

getVCPUPrice(catalog, region, family) ==
    LookupResult(Pages(catalog, 1, "core", region, family, 0))

getMemoryPrice(catalog, region, family) ==
    LookupResult(Pages(catalog, 1, "memory", region, family, 0))

\* GCPPricingFetcher.FetchPricing; machineType is a string of the Chars
\* table, vcpuCat and memCat are the catalogs the two ListSkus calls see
GCPFetchPricing(region, machineType, vcpuCat, memCat) ==
    LET shape == parseMachineType(Chars(machineType)) IN
    IF ~shape.ok THEN Err("failed to parse machine type")
    ELSE
    LET vcpu == getVCPUPrice(vcpuCat, region, shape.family) IN
    IF vcpu.err # "" THEN Err("failed to get vCPU pricing")
    ELSE
    LET mem == getMemoryPrice(memCat, region, shape.family) IN
    IF mem.err # "" THEN Err("failed to get memory pricing")
    ELSE Ok([Provider |-> "gcp", Region |-> region, InstanceType |-> machineType,
             TotalCost |-> vcpu.price * shape.vcpus
                           + (mem.price * shape.memoryGB) \div MemDen,
             MemoryGB |-> shape.memoryGB,
             VCPUs |-> shape.vcpus])

(***************************************************************************)
(* metrics.go                                                              *)
(*                                                                         *)
(* A GaugeVec or CounterVec is a function from the label tuples of the     *)
(* series created so far to their values; With(labels) creates the series. *)
(* A derived gauge keeps its quotient as the pair <<dividend, divisor>>.   *)
(***************************************************************************)
VARIABLES
    TotalCostPerHour,    \* gauge, labels <<provider, region, instance_type>>
    CostPerGBPerHour,    \* gauge, labels <<provider, region, instance_type>>
    CostPerVCPUPerHour,  \* gauge, labels <<provider, region, instance_type>>
    PricingErrors,       \* counter, labels <<provider, region>>
    LastUpdateTime       \* gauge, labels <<provider, region>>

metricVars ==
    <<TotalCostPerHour, CostPerGBPerHour, CostPerVCPUPerHour, PricingErrors, LastUpdateTime>>

NoSeries == [l \in {} |-> 0]

\* vec.With(labels).Set(v)
GaugeSet(vec, labels, v) ==
    [l \in DOMAIN vec \cup {labels} |-> IF l = labels THEN v ELSE vec[l]]

\* vec.With(labels).Inc()
CounterInc(vec, labels) ==
    [l \in DOMAIN vec \cup {labels} |->
        IF l = labels THEN (IF l \in DOMAIN vec THEN vec[l] ELSE 0) + 1 ELSE vec[l]]

PricingLabels(p) == <<p.Provider, p.Region, p.InstanceType>>

\* RecordPricing divides by MemoryGB without the guard
EmitsPerGBAlways(p) == TRUE

\* the guards of RecordPricing, lines 74 and 78
EmitsPerGB(p) == p.MemoryGB > 0

EmitsPerVCPU(p) == p.VCPUs > 0

\* Metrics.RecordPricing
RecordPricing(p) ==
    /\ TotalCostPerHour' = GaugeSet(TotalCostPerHour, PricingLabels(p), p.TotalCost)
    /\ CostPerGBPerHour' =
          IF EmitsPerGB(p)
          THEN GaugeSet(CostPerGBPerHour, PricingLabels(p), <<p.TotalCost, p.MemoryGB>>)
          ELSE CostPerGBPerHour
    /\ CostPerVCPUPerHour' =
          IF EmitsPerVCPU(p)
          THEN GaugeSet(CostPerVCPUPerHour, PricingLabels(p), <<p.TotalCost, p.VCPUs>>)
          ELSE CostPerVCPUPerHour

(***************************************************************************)
(* main.go and monitor.go                                                  *)
(***************************************************************************)
VARIABLES
    cfg,          \* the Monitor's awsRegions, awsInstanceTypes, gcpRegions, gcpInstanceTypes
    awsFetcher,   \* m.awsFetcher # nil
    gcpFetcher,   \* m.gcpFetcher # nil
    mainPc,       \* where run (and Start, which it calls) stands
    pollPc,       \* where the pollPricing goroutine stands
    fa,           \* the running call of fetchAllPricing: [phase, next, pass]
    inflight,     \* the fetch goroutines launched and not yet returned: [pass, k]
    ctxDone,      \* cancel() has been called
    tickPending,  \* a tick waits in ticker.C (a channel of capacity 1)
    now,          \* time.Now(), in poll intervals since the ticker started
    calls,        \* per target, the sink calls of the current pass
    input,        \* the input of the normalizer runs
    runs          \* the results of the FetchPricing runs against input

schedVars ==
    <<cfg, awsFetcher, gcpFetcher, mainPc, pollPc, fa, inflight, ctxDone,
      tickPending, now, calls>>

pureVars == <<input, runs>>

vars == <<metricVars, schedVars, pureVars>>

\* the values the command line may give the four list flags
AWSRegionLists == {<<>>, <<"us-east-1">>}

AWSTypeLists == {<<>>, <<"t3.micro">>}

GCPRegionLists == {<<>>, <<"us-central1">>}

GCPTypeLists == {<<>>, <<"e2-micro">>, <<"n2-standard-2", "e2-micro">>}

\* the cross product of the two nested loops of fetchAllPricing, in loop order
Cross(provider, regions, types) ==
    [k \in 1..(Len(regions) * Len(types)) |->
        [provider |-> provider,
         region |-> regions[((k - 1) \div Len(types)) + 1],
         instanceType |-> types[((k - 1) % Len(types)) + 1]]]

\* every configured target, AWS first
AllTargets ==
    Cross("aws", cfg.awsRegions, cfg.awsInstanceTypes)
        \o Cross("gcp", cfg.gcpRegions, cfg.gcpInstanceTypes)

\* lines 76 and 89: the loops over a provider's targets run only with its fetcher
HasFetcher(provider) == IF provider = "aws" THEN awsFetcher ELSE gcpFetcher

\* the first target at or after k that fetchAllPricing launches
RECURSIVE NextLaunch(_)
NextLaunch(k) ==
    IF k > Len(AllTargets) THEN k
    ELSE IF HasFetcher(AllTargets[k].provider) THEN k
    ELSE NextLaunch(k + 1)

\* run, lines 348-358
ConfigError ==
    \/ Len(cfg.awsRegions) = 0 /\ Len(cfg.gcpRegions) = 0
    \/ Len(cfg.awsRegions) > 0 /\ Len(cfg.awsInstanceTypes) = 0
    \/ Len(cfg.gcpRegions) > 0 /\ Len(cfg.gcpInstanceTypes) = 0

\* Start constructs the AWS client whatever is configured
NeedsAWSAlways == TRUE

\* Start, lines 26 and 34
NeedsAWS == Len(cfg.awsRegions) > 0

NeedsGCP == Len(cfg.gcpRegions) > 0

\* the WaitGroup counter of pass p: one Add(1) per launch, one deferred Done
wgGoroutines(p) == {g \in inflight : g.pass = p}

\* the GCP loop launches its goroutines without wg.Add(1)
wgWithoutGCPAdd(p) ==
    Cardinality({g \in wgGoroutines(p) : AllTargets[g.k].provider = "aws"})

wg(p) == Cardinality(wgGoroutines(p))

\* fetchAllPricing returns without wg.Wait()
WaitReadyAtOnce(p) == TRUE

\* wg.Wait() returns
WaitReady(p) == wg(p) = 0

\* per target: the calls of RecordPricing and of PricingErrors.Inc, how
\* FetchPricing returned ("none" until it has) and the point recorded
NoCall == [price |-> 0, fail |-> 0, res |-> "none", p |-> NoPricing]

\* the vendor responses a fetch of the scheduler may meet
MemOf(n, val, err, unit) == [n |-> n, qty |-> [val |-> val, err |-> err], unit |-> unit]

OneDim(usd) == [t \in {"t1"} |-> [hasDims |-> TRUE, dims |-> [d \in {"d1"} |-> usd]]]

AWSDoc(shape, memory, vcpu, onDemand) ==
    [shape |-> shape, memory |-> memory, vcpu |-> vcpu, onDemand |-> onDemand]

AWSResp(err, priceList) == [err |-> err, priceList |-> priceList]

SchedAWSResponses ==
    { AWSResp(TRUE, <<>>),
      AWSResp(FALSE, <<AWSDoc("ok", MemOf(0, 0, TRUE, ""), "2", OneDim("0.0416"))>>),
      AWSResp(FALSE, <<AWSDoc("ok", MemOf(2, 160, FALSE, "GiB"), "", OneDim("0.0416"))>>) }

Rate(units, nanos) == <<[Units |-> units, Nanos |-> nanos]>>

Sku(desc, regions, pricingInfo) ==
    [Description |-> desc, ServiceRegions |-> regions, PricingInfo |-> pricingInfo]

CatalogOf(pages, errAt) == [pages |-> pages, errAt |-> errAt]

SchedPage ==
    << Sku("N2 Instance Core running in Americas", <<"us-central1">>, <<Rate(0, 30000000)>>),
       Sku("N2 Instance Ram running in Americas", <<"us-central1">>, <<Rate(0, 4000000)>>),
       Sku("E2 Instance Core running in Americas", <<"us-central1">>, <<Rate(0, 20000000)>>),
       Sku("E2 Instance Ram running in Americas", <<"us-central1">>, <<Rate(0, 3000000)>>) >>

SchedCatalogs == {CatalogOf(<<SchedPage>>, 0), CatalogOf(<<SchedPage>>, 1)}

\* the results FetchPricing may return against resp, over the orders its
\* map ranges may take
AWSOutcomes(region, instanceType, resp) ==
    IF resp.err \/ Len(resp.priceList) = 0
    THEN {AWSFetchPricing(region, instanceType, resp, <<>>, <<>>)}
    ELSE {AWSFetchPricing(region, instanceType, resp, torder, dorder) :
            torder \in TermOrders(resp.priceList[1]),
            dorder \in DimOrders(resp.priceList[1])}

\* the results m.awsFetcher.FetchPricing or m.gcpFetcher.FetchPricing may
\* return for target t
VendorResults(t) ==
    IF t.provider = "aws"
    THEN UNION {AWSOutcomes(t.region, t.instanceType, resp) : resp \in SchedAWSResponses}
    ELSE {GCPFetchPricing(t.region, t.instanceType, c, c) : c \in SchedCatalogs}

\* the strings a list flag may hold
Elements(lists) == UNION {{l[i] : i \in DOMAIN l} : l \in lists}

\* every target some configuration has
SchedTargets ==
    {[provider |-> "aws", region |-> r, instanceType |-> it] :
        r \in Elements(AWSRegionLists), it \in Elements(AWSTypeLists)}
    \cup {[provider |-> "gcp", region |-> r, instanceType |-> it] :
            r \in Elements(GCPRegionLists), it \in Elements(GCPTypeLists)}

\* VendorResults, computed once per target
FetchResultsOf == [t \in SchedTargets |-> VendorResults(t)]

FetchResults(t) == FetchResultsOf[t]

\* the error branch logs the error and returns without counting it
FetchOutcomeSwallowsError(res) == IF ~res.ok THEN "none" ELSE "price"

\* fetchAWSPricing / fetchGCPPricing: which sink call follows result res
FetchOutcome(res) == IF ~res.ok THEN "failure" ELSE "price"

\* a failed fetch cancels the other fetches of its pass
AfterFetchCancelsSiblings(g, res) ==
    IF ~res.ok THEN inflight \ wgGoroutines(g.pass) ELSE inflight \ {g}

\* the goroutines still running once goroutine g has returned
AfterFetch(g, res) == inflight \ {g}

SchedInit ==
    /\ cfg \in [awsRegions : AWSRegionLists, awsInstanceTypes : AWSTypeLists,
                gcpRegions : GCPRegionLists, gcpInstanceTypes : GCPTypeLists]
    /\ awsFetcher = FALSE
    /\ gcpFetcher = FALSE
    /\ mainPc = "validate"
    /\ pollPc = "none"
    /\ fa = [phase |-> "idle", next |-> 1, pass |-> 0]
    /\ inflight = {}
    /\ ctxDone = FALSE
    /\ tickPending = FALSE
    /\ now = 0
    /\ calls = <<>>
    /\ TotalCostPerHour = NoSeries
    /\ CostPerGBPerHour = NoSeries
    /\ CostPerVCPUPerHour = NoSeries
    /\ PricingErrors = NoSeries
    /\ LastUpdateTime = NoSeries

Init ==
    /\ SchedInit
    /\ input = [provider |-> "none"]
    /\ runs = <<>>

\* fetchAllPricing is entered: lines 70-75
BeginPass ==
    /\ fa' = [phase |-> IF NextLaunch(1) > Len(AllTargets) THEN "wait" ELSE "launch",
              next |-> NextLaunch(1),
              pass |-> fa.pass + 1]
    /\ calls' = [k \in 1..Len(AllTargets) |-> NoCall]

\* run validates the flags
RunValidate ==
    /\ mainPc = "validate"
    /\ mainPc' = IF ConfigError THEN "failed" ELSE "init_aws"
    /\ UNCHANGED <<cfg, awsFetcher, gcpFetcher, pollPc, fa, inflight, ctxDone,
                   tickPending, now, calls, metricVars, pureVars>>

\* Start, lines 26-32: ok is whether NewAWSPricingFetcher succeeds
StartInitAWS ==
    /\ mainPc = "init_aws"
    /\ \E ok \in BOOLEAN :
         IF NeedsAWS
         THEN /\ awsFetcher' = ok
              /\ mainPc' = IF ok THEN "init_gcp" ELSE "failed"
         ELSE /\ ok
              /\ awsFetcher' = awsFetcher
              /\ mainPc' = "init_gcp"
    /\ UNCHANGED <<cfg, gcpFetcher, pollPc, fa, inflight, ctxDone,
                   tickPending, now, calls, metricVars, pureVars>>

\* Start, lines 34-43: the GCP client, then the initial pass begins
StartInitGCP ==
    /\ mainPc = "init_gcp"
    /\ \E ok \in BOOLEAN :
         IF NeedsGCP
         THEN /\ gcpFetcher' = ok
              /\ mainPc' = IF ok THEN "initial" ELSE "failed"
         ELSE /\ ok
              /\ gcpFetcher' = gcpFetcher
              /\ mainPc' = "initial"
    /\ UNCHANGED <<cfg, awsFetcher, pollPc, fa, inflight, ctxDone,
                   tickPending, now, calls, metricVars, pureVars>>

\* Start, line 43: the initial pass
StartInitialPass ==
    /\ mainPc = "initial"
    /\ fa.phase = "idle"
    /\ fa.pass = 0
    /\ BeginPass
    /\ UNCHANGED <<cfg, awsFetcher, gcpFetcher, mainPc, pollPc, inflight, ctxDone,
                   tickPending, now, metricVars, pureVars>>

\* fetchAllPricing, lines 77-99: wg.Add(1) and go func for the next target
Launch ==
    /\ mainPc \notin {"exited", "failed"}
    /\ fa.phase = "launch"
    /\ inflight' = inflight \cup {[pass |-> fa.pass, k |-> fa.next]}
    /\ fa' = [fa EXCEPT !.next = NextLaunch(fa.next + 1),
                        !.phase = IF NextLaunch(fa.next + 1) > Len(AllTargets)
                                  THEN "wait" ELSE "launch"]
    /\ UNCHANGED <<cfg, awsFetcher, gcpFetcher, mainPc, pollPc, ctxDone,
                   tickPending, now, calls, metricVars, pureVars>>

\* the fetch goroutine g, from the return of FetchPricing to its deferred wg.Done
ResolveFetch(g) ==
    /\ mainPc \notin {"exited", "failed"}
    /\ g \in inflight
    /\ LET t == AllTargets[g.k] IN
       \E res \in FetchResults(t) :
          LET returned == IF res.ok THEN "ok" ELSE "err" IN
          /\ CASE FetchOutcome(res) = "failure" ->
                    /\ PricingErrors' = CounterInc(PricingErrors, <<t.provider, t.region>>)
                    /\ calls' = [calls EXCEPT ![g.k].fail = @ + 1, ![g.k].res = returned]
                    /\ UNCHANGED <<TotalCostPerHour, CostPerGBPerHour,
                                   CostPerVCPUPerHour, LastUpdateTime>>
               [] FetchOutcome(res) = "price" ->
                    /\ RecordPricing(res.p)
                    /\ LastUpdateTime' = GaugeSet(LastUpdateTime, <<t.provider, t.region>>, now)
                    /\ calls' = [calls EXCEPT ![g.k].price = @ + 1, ![g.k].p = res.p,
                                              ![g.k].res = returned]
                    /\ UNCHANGED PricingErrors
               [] OTHER ->
                    /\ calls' = [calls EXCEPT ![g.k].res = returned]
                    /\ UNCHANGED metricVars
          /\ inflight' = AfterFetch(g, res)
    /\ UNCHANGED <<cfg, awsFetcher, gcpFetcher, mainPc, pollPc, fa, ctxDone,
                   tickPending, now, pureVars>>

\* some fetch goroutine returns
Resolve == \E g \in inflight : ResolveFetch(g)

\* fetchAllPricing, lines 101-103: wg.Wait() returns and so does the pass;
\* after the initial pass Start launches pollPricing, which creates the ticker
PassReturn ==
    /\ mainPc \notin {"exited", "failed"}
    /\ fa.phase = "wait"
    /\ WaitReady(fa.pass)
    /\ fa' = [fa EXCEPT !.phase = "idle"]
    /\ IF mainPc = "initial"
       THEN mainPc' = "serving" /\ pollPc' = "select"
       ELSE mainPc' = mainPc /\ pollPc' = "select"
    /\ UNCHANGED <<cfg, awsFetcher, gcpFetcher, inflight, ctxDone,
                   tickPending, now, calls, metricVars, pureVars>>

\* the ticker fires: the tick is queued, or dropped when one is queued already
Tick ==
    /\ mainPc \notin {"exited", "failed"}
    /\ pollPc \in {"select", "fetching"}
    /\ now < MaxTicks
    /\ now' = now + 1
    /\ tickPending' = TRUE
    /\ UNCHANGED <<cfg, awsFetcher, gcpFetcher, mainPc, pollPc, fa, inflight,
                   ctxDone, calls, metricVars, pureVars>>

\* pollPricing, line 62: the select takes the tick
PollTick ==
    /\ mainPc \notin {"exited", "failed"}
    /\ pollPc = "select"
    /\ tickPending
    /\ tickPending' = FALSE
    /\ pollPc' = "fetching"
    /\ BeginPass
    /\ UNCHANGED <<cfg, awsFetcher, gcpFetcher, mainPc, inflight, ctxDone,
                   now, metricVars, pureVars>>

\* pollPricing, line 59: the select takes ctx.Done()
PollStop ==
    /\ mainPc \notin {"exited", "failed"}
    /\ pollPc = "select"
    /\ ctxDone
    /\ pollPc' = "stopped"
    /\ UNCHANGED <<cfg, awsFetcher, gcpFetcher, mainPc, fa, inflight, ctxDone,
                   tickPending, now, calls, metricVars, pureVars>>

\* run, lines 391-394: the signal arrives and run cancels the context
Signal ==
    /\ mainPc = "serving"
    /\ ctxDone' = TRUE
    /\ mainPc' = "sleeping"
    /\ UNCHANGED <<cfg, awsFetcher, gcpFetcher, pollPc, fa, inflight,
                   tickPending, now, calls, metricVars, pureVars>>

\* run, lines 395-397: the sleep ends, run returns and the process exits,
\* which ends every goroutine and discards the registry
Exit ==
    /\ mainPc = "sleeping"
    /\ mainPc' = "exited"
    /\ pollPc' = "none"
    /\ fa' = [phase |-> "none", next |-> 1, pass |-> fa.pass]
    /\ inflight' = {}
    /\ calls' = <<>>
    /\ tickPending' = FALSE
    /\ TotalCostPerHour' = NoSeries
    /\ CostPerGBPerHour' = NoSeries
    /\ CostPerVCPUPerHour' = NoSeries
    /\ PricingErrors' = NoSeries
    /\ LastUpdateTime' = NoSeries
    /\ UNCHANGED <<cfg, awsFetcher, gcpFetcher, ctxDone, now, pureVars>>

Next ==
    \/ RunValidate
    \/ StartInitAWS
    \/ StartInitGCP
    \/ StartInitialPass
    \/ Launch
    \/ Resolve
    \/ PassReturn
    \/ Tick
    \/ PollTick
    \/ PollStop
    \/ Signal
    \/ Exit

Spec == Init /\ [][Next]_vars

(***************************************************************************)
(* The normalizers on their own: FetchPricing is run up to MaxRuns times   *)
(* against one input, each run of the AWS normalizer taking some order     *)
(* over the keys of the document's maps.                                   *)
(***************************************************************************)
USDValues == {NoUSD, "0.0416", "0.0832", "0.0000000000", "-0.0416", "N/A"}

TermKeys == {"t1", "t2"}

DimKeys == {"d1", "d2"}

\* the terms a document may hold
Terms ==
    {[hasDims |-> FALSE, dims |-> <<>>]}
        \cup {[hasDims |-> TRUE, dims |-> d] : d \in UNION {[D -> USDValues] : D \in SUBSET DimKeys}}

OnDemandMaps == UNION {[T -> Terms] : T \in SUBSET TermKeys}

GoodMemory == MemOf(2, 160, FALSE, "GiB")

AWSResponses ==
    {AWSResp(TRUE, <<>>), AWSResp(FALSE, <<>>)}
        \cup {AWSResp(FALSE, <<AWSDoc(shape, GoodMemory, "2", <<>>)>>) :
                shape \in {"badjson", "noproduct", "noattributes", "noterms", "noondemand"}}
        \cup {AWSResp(FALSE, <<AWSDoc("ok", GoodMemory, "2", od)>>) : od \in OnDemandMaps}
        \cup {AWSResp(FALSE, <<AWSDoc("ok", m, v, OneDim("0.0416"))>>) :
                m \in {MemOf(0, 0, TRUE, ""), MemOf(2, 0, TRUE, "GiB"), MemOf(2, 160, FALSE, "GB")},
                v \in {"", "4", "0"}}

AWSInputs ==
    {[provider |-> "aws", region |-> "us-east-1", instanceType |-> "t3.micro", resp |-> r] :
        r \in AWSResponses}

LeadSkus ==
    { Sku("N2 Instance Core running in Americas", <<"us-central1">>, <<Rate(0, 30000000)>>),
      Sku("N2 Instance Ram running in Americas", <<"us-central1">>, <<Rate(0, 4000000)>>) }

SampleSkus ==
    LeadSkus \cup
    { Sku("Spot Preemptible N2 Instance Core running in Americas", <<"us-east1", "us-central1">>,
          <<Rate(0, 10000000)>>),
      Sku("N2 Instance Core running in Americas", <<"us-central1">>, <<>>),
      Sku("N2 Instance Ram running in Americas", <<"us-central1">>, <<Rate(0, -4000000)>>),
      Sku("E2 Instance Ram running in Americas", <<"us-east1">>, <<Rate(0, 3000000)>>) }

\* a page holds no SKU, one, or a lead SKU followed by another
SamplePages ==
    {<<>>} \cup {<<a>> : a \in SampleSkus} \cup {<<a, b>> : a \in LeadSkus, b \in SampleSkus}

\* every request succeeds, or the request for the last page fails
Catalogs ==
    UNION {{CatalogOf(pages, errAt) : errAt \in {0, Len(pages)}} :
             pages \in UNION {[1..n -> SamplePages] : n \in 0..MaxPages}}

GCPInputs ==
    {[provider |-> "gcp", region |-> "us-central1", instanceType |-> mt, catalog |-> c] :
        mt \in {"n2-standard-2", "e2-micro", "e2"}, c \in Catalogs}

NoLookup == [err |-> "", price |-> 0]

\* the scheduler at rest
SchedIdle ==
    /\ cfg = [awsRegions |-> <<>>, awsInstanceTypes |-> <<>>,
              gcpRegions |-> <<>>, gcpInstanceTypes |-> <<>>]
    /\ awsFetcher = FALSE
    /\ gcpFetcher = FALSE
    /\ mainPc = "none"
    /\ pollPc = "none"
    /\ fa = [phase |-> "none", next |-> 1, pass |-> 0]
    /\ inflight = {}
    /\ ctxDone = FALSE
    /\ tickPending = FALSE
    /\ now = 0
    /\ calls = <<>>
    /\ TotalCostPerHour = NoSeries
    /\ CostPerGBPerHour = NoSeries
    /\ CostPerVCPUPerHour = NoSeries
    /\ PricingErrors = NoSeries
    /\ LastUpdateTime = NoSeries

FetchInit ==
    /\ SchedIdle
    /\ input \in AWSInputs \cup GCPInputs
    /\ runs = <<>>

\* one run of AWSPricingFetcher.FetchPricing against the input
AWSRun ==
    /\ input.provider = "aws"
    /\ Len(runs) < MaxRuns
    /\ \E res \in AWSOutcomes(input.region, input.instanceType, input.resp) :
         runs' = Append(runs, [res |-> res, vcpu |-> NoLookup, mem |-> NoLookup])
    /\ UNCHANGED <<input, schedVars, metricVars>>

\* one run of GCPPricingFetcher.FetchPricing against the input, with the
\* results of its two lookups
GCPRun ==
    /\ input.provider = "gcp"
    /\ Len(runs) < MaxRuns
    /\ LET shape == parseMachineType(Chars(input.instanceType)) IN
       runs' = Append(runs,
          [res |-> GCPFetchPricing(input.region, input.instanceType, input.catalog, input.catalog),
           vcpu |-> IF shape.ok THEN getVCPUPrice(input.catalog, input.region, shape.family)
                    ELSE NoLookup,
           mem |-> IF shape.ok THEN getMemoryPrice(input.catalog, input.region, shape.family)
                   ELSE NoLookup])
    /\ UNCHANGED <<input, schedVars, metricVars>>

FetchNext == AWSRun \/ GCPRun

SpecFetch == FetchInit /\ [][FetchNext]_vars

(***************************************************************************)
(* The scheduler's claims, under Spec.                                     *)
(***************************************************************************)
\* fetchAllPricing has returned and no later call of it has begun
PassEnded == fa.phase = "idle" /\ fa.pass >= 1

SinkCalls(k) == calls[k].price + calls[k].fail

\* C1: in every pass each configured target makes exactly one sink call, a
\* recorded price point or a counted failure: never two at any moment of
\* the pass, and exactly one by the time the pass has ended.
ExactlyOneOutcomePerTarget ==
    /\ \A k \in DOMAIN calls : SinkCalls(k) <= 1
    /\ PassEnded => \A k \in 1..Len(AllTargets) : k \in DOMAIN calls /\ SinkCalls(k) = 1

\* a second pass has ended in which a target failed and another recorded a price
ExactlyOneOutcomeWitness ==
    /\ PassEnded
    /\ fa.pass = 2
    /\ \E j, k \in DOMAIN calls : calls[j].fail = 1 /\ calls[k].price = 1

FailedTargets == {k \in DOMAIN calls : calls[k].res = "err"}

\* C2: when exactly one target's FetchPricing failed in a pass, the pass
\* ends with a price point recorded for each of the other targets, whose
\* total-cost series holds it, and with nothing but the failure counted for
\* the failing one, whatever the order in which the fetches ran.
FaultIsolation ==
    (PassEnded /\ Cardinality(FailedTargets) = 1) =>
        \A k \in 1..Len(AllTargets) :
            IF k \in FailedTargets
            THEN calls[k].fail = 1 /\ calls[k].price = 0
            ELSE /\ calls[k].price = 1
                 /\ calls[k].fail = 0
                 /\ PricingLabels(calls[k].p) \in DOMAIN TotalCostPerHour
                 /\ TotalCostPerHour[PricingLabels(calls[k].p)] = calls[k].p.TotalCost

\* a pass over three targets has ended with exactly one failure
FaultIsolationWitness ==
    /\ PassEnded
    /\ Len(AllTargets) = 3
    /\ Cardinality(FailedTargets) = 1
    /\ \E k \in DOMAIN calls : AllTargets[k].provider = "aws" /\ calls[k].res = "err"

\* C3: the fetches in flight all belong to the one pass that is running;
\* none is in flight between passes.
PassesNeverOverlap ==
    \A g \in inflight : fa.phase \in {"launch", "wait"} /\ g.pass = fa.pass

\* two fetches of a ticker-driven pass are in flight
PassesNeverOverlapWitness ==
    /\ fa.pass = 2
    /\ pollPc = "fetching"
    /\ Cardinality(inflight) >= 2

\* C4: once fetchAllPricing has returned, every fetch it launched has
\* returned, having made its sink call: none is still running and none was
\* dropped.
PassCompleteOnlyWhenResolved ==
    PassEnded =>
        \A k \in 1..Len(AllTargets) :
            HasFetcher(AllTargets[k].provider) =>
                /\ calls[k].res # "none"
                /\ \A g \in inflight : g.k # k

\* the initial pass over at least two targets has returned and the poller waits
PassCompleteWitness ==
    /\ PassEnded
    /\ fa.pass = 1
    /\ pollPc = "select"
    /\ Len(AllTargets) >= 2
    /\ \A k \in DOMAIN calls : calls[k].res # "none"

TargetsOf(provider) == {k \in 1..Len(AllTargets) : AllTargets[k].provider = provider}

\* C5: a provider's client exists only if the provider has a target, and
\* every fetch in flight is for a provider whose client exists.
ClientOnlyWithTargets ==
    /\ awsFetcher => TargetsOf("aws") # {}
    /\ gcpFetcher => TargetsOf("gcp") # {}
    /\ \A g \in inflight : HasFetcher(AllTargets[g.k].provider)

\* AWS instance types are configured without a region: no AWS client, and
\* the GCP fetches run
ClientOnlyWithTargetsWitness ==
    /\ Len(cfg.awsInstanceTypes) > 0
    /\ Len(cfg.awsRegions) = 0
    /\ ~awsFetcher
    /\ gcpFetcher
    /\ inflight # {}

\* target k's fetch calls RecordPricing in this step
RecordsNow(k) ==
    k \in DOMAIN calls /\ k \in DOMAIN calls' /\ calls'[k].price = calls[k].price + 1

\* C10: a call of RecordPricing sets the total-cost series of the point's
\* labels; it sets the per-GB series exactly when MemoryGB > 0 and the
\* per-vCPU series exactly when VCPUs > 0, and leaves each alone otherwise.
RecordPricingEmits ==
    [][\A k \in DOMAIN calls : RecordsNow(k) =>
          LET p == calls'[k].p
              l == PricingLabels(p)
          IN  /\ l \in DOMAIN TotalCostPerHour'
              /\ TotalCostPerHour'[l] = p.TotalCost
              /\ IF p.MemoryGB > 0
                 THEN l \in DOMAIN CostPerGBPerHour'
                      /\ CostPerGBPerHour'[l] = <<p.TotalCost, p.MemoryGB>>
                 ELSE CostPerGBPerHour' = CostPerGBPerHour
              /\ IF p.VCPUs > 0
                 THEN l \in DOMAIN CostPerVCPUPerHour'
                      /\ CostPerVCPUPerHour'[l] = <<p.TotalCost, p.VCPUs>>
                 ELSE CostPerVCPUPerHour' = CostPerVCPUPerHour]_vars

\* a point without memory but with vCPUs was recorded: its total-cost and
\* per-vCPU series exist and its per-GB series does not; and one with
\* memory and without vCPUs, the other way round
RecordPricingEmitsWitness ==
    /\ \E k \in DOMAIN calls :
          /\ calls[k].price = 1
          /\ calls[k].p.MemoryGB = 0
          /\ calls[k].p.VCPUs > 0
          /\ PricingLabels(calls[k].p) \in DOMAIN TotalCostPerHour
          /\ PricingLabels(calls[k].p) \in DOMAIN CostPerVCPUPerHour
          /\ PricingLabels(calls[k].p) \notin DOMAIN CostPerGBPerHour
    /\ \E k \in DOMAIN calls :
          /\ calls[k].price = 1
          /\ calls[k].p.MemoryGB > 0
          /\ calls[k].p.VCPUs > 0
          /\ PricingLabels(calls[k].p) \in DOMAIN CostPerGBPerHour

(***************************************************************************)
(* The normalizers' claims, under SpecFetch.                               *)
(***************************************************************************)
\* C6: every price point FetchPricing returns, of either provider, has a
\* strictly positive TotalCost.
PositiveTotalCost ==
    \A i \in 1..Len(runs) : runs[i].res.ok => runs[i].res.p.TotalCost > 0

\* the SKUs of a catalog in page order
RECURSIVE Flatten(_)
Flatten(pages) == IF pages = <<>> THEN <<>> ELSE Head(pages) \o Flatten(Tail(pages))

\* the positions, in page order, of the priced SKUs that match
MatchPositions(dim, catalog, region, family) ==
    LET skus == Flatten(catalog.pages) IN
    {i \in 1..Len(skus) : Matches(dim, skus[i], region, family) /\ HasRate(skus[i])}

Min(S) == CHOOSE x \in S : \A y \in S : x <= y

\* what C7 says a lookup that returned a price returned
IsFirstMatch(dim, lookup, catalog, region, family) ==
    LET at == MatchPositions(dim, catalog, region, family) IN
    lookup.err = "" =>
        /\ at # {}
        /\ lookup.price = UnitPrice(Flatten(catalog.pages)[Min(at)])

\* C7: the unit price a lookup returns is the price of the first matching
\* SKU in catalog page order, whatever matches on later pages.
FirstMatchInPageOrder ==
    \A i \in 1..Len(runs) :
        (input.provider = "gcp" /\ parseMachineType(Chars(input.instanceType)).ok) =>
            LET family == parseMachineType(Chars(input.instanceType)).family IN
            /\ IsFirstMatch("core", runs[i].vcpu, input.catalog, input.region, family)
            /\ IsFirstMatch("memory", runs[i].mem, input.catalog, input.region, family)

\* C8: two runs of FetchPricing against the same content return the same
\* result.
FetchDeterministic ==
    \A i, j \in 1..Len(runs) : runs[i].res = runs[j].res

\* the positive prices among the dimensions of a term, and of a document
TermPositivePrices(term) ==
    IF ~term.hasDims THEN {}
    ELSE {ParseFloat(term.dims[d]).val :
            d \in {x \in DOMAIN term.dims :
                     /\ term.dims[x] # NoUSD
                     /\ ~ParseFloat(term.dims[x]).err
                     /\ ParseFloat(term.dims[x]).val > 0}}

PositivePrices(doc) ==
    UNION {TermPositivePrices(doc.onDemand[t]) : t \in DOMAIN doc.onDemand}

\* C9: against a well-formed document with at least one dimension whose
\* USD price parses as a positive number, the AWS normalizer returns a
\* price point whose TotalCost is the price of such a dimension; it returns
\* the pricing-not-found error only when there is no such dimension.
FirstPositiveDimension ==
    \A i \in 1..Len(runs) :
        (/\ input.provider = "aws"
         /\ ~input.resp.err
         /\ Len(input.resp.priceList) > 0
         /\ input.resp.priceList[1].shape = "ok") =>
            LET positive == PositivePrices(input.resp.priceList[1]) IN
            /\ positive # {} => runs[i].res.ok /\ runs[i].res.p.TotalCost \in positive
            /\ runs[i].res.err = "no valid pricing found" => positive = {}

(***************************************************************************)
(* Staleness of a failing target, under Spec.                              *)
(***************************************************************************)
\* the positions AllTargets may have under some configuration
TargetSlots ==
    UNION {1..(Len(ar) * Len(at) + Len(gr) * Len(gt)) :
             ar \in AWSRegionLists, at \in AWSTypeLists,
             gr \in GCPRegionLists, gt \in GCPTypeLists}

\* the label tuples the fetch of target k writes to
RegionLabels(k) == <<AllTargets[k].provider, AllTargets[k].region>>

TargetLabels(k) ==
    <<AllTargets[k].provider, AllTargets[k].region, AllTargets[k].instanceType>>

\* the fetch of target k has not succeeded in the current pass
NotFetched(k) == k \in DOMAIN calls => calls[k].res # "ok"

\* a pass has ended in which the fetch of target k failed
FailedPassEnded(k) == PassEnded /\ k \in DOMAIN calls /\ calls[k].res = "err"

\* the total-cost series of target k has never been written
TotalCostFlat(k) == FailedPassEnded(k) => TargetLabels(k) \notin DOMAIN TotalCostPerHour

\* the failure counter of target k's region has grown in every pass so far
FailuresCounted(k) ==
    FailedPassEnded(k) =>
        /\ RegionLabels(k) \in DOMAIN PricingErrors
        /\ PricingErrors[RegionLabels(k)] >= fa.pass

\* the last-success timestamp of target k's region has never been set
TimestampStale(k) == FailedPassEnded(k) => RegionLabels(k) \notin DOMAIN LastUpdateTime

StaleTotalCost == \A k \in TargetSlots : [](NotFetched(k)) => [](TotalCostFlat(k))

StaleFailureCount == \A k \in TargetSlots : [](NotFetched(k)) => [](FailuresCounted(k))

\* RecordPricing writes the total-cost series of a target at each of its
\* successes and nothing removes a series: a target without the series has
\* succeeded in no pass
NeverSucceeded(k) == TargetLabels(k) \notin DOMAIN TotalCostPerHour

\* C11: at the end of a pass, for a target whose fetch has failed in this
\* and in every earlier pass, the failure counter of its (provider, region)
\* has grown by at least one per pass and the last-success timestamp of
\* its (provider, region) is as it was at startup.
StaleFailingTarget ==
    \A k \in DOMAIN calls :
        (FailedPassEnded(k) /\ NeverSucceeded(k)) =>
            /\ RegionLabels(k) \in DOMAIN PricingErrors
            /\ PricingErrors[RegionLabels(k)] >= fa.pass
            /\ RegionLabels(k) \notin DOMAIN LastUpdateTime

(***************************************************************************)
(* Client construction failures, under Spec.                               *)
(***************************************************************************)
\* Start has returned nil or is in its initial pass: the monitor runs
MonitorRuns == mainPc \in {"initial", "serving", "sleeping"}

\* Start returned the error of NewAWSPricingFetcher / NewGCPPricingFetcher
AWSInitFailed == mainPc = "failed" /\ ~ConfigError /\ NeedsAWS /\ ~awsFetcher

GCPInitFailed ==
    mainPc = "failed" /\ ~ConfigError /\ ~AWSInitFailed /\ NeedsGCP /\ ~gcpFetcher

\* a running monitor has a fetcher for every provider that is configured
NoSilentProvider ==
    MonitorRuns => (NeedsAWS => awsFetcher) /\ (NeedsGCP => gcpFetcher)

\* C12: a failure to construct one provider's client never leaves a monitor
\* running without a fetcher for that provider, and never stops the
\* monitoring of the other provider when that one is configured.
ClientFailureIsolated ==
    /\ NoSilentProvider
    /\ AWSInitFailed => ~NeedsGCP
    /\ GCPInitFailed => ~NeedsAWS

(***************************************************************************)
(* Progress of a pass.  The goroutines of the program are scheduled        *)
(* fairly: Start, fetchAllPricing and pollPricing take their next step     *)
(* when they can, and the ticker fires.  A vendor call returns when the    *)
(* vendor answers: every fetch is taken to return, except the fetch of the *)
(* first configured target, whose vendor call may never return.  The       *)
(* signal may never come.                                                  *)
(***************************************************************************)
\* the goroutine of pass p that fetches target k
FetchOf(p, k) == [pass |-> p, k |-> k]

\* the passes the ticker's bound allows: the initial one and one per tick
PassNumbers == 1..(MaxTicks + 1)

\* the target whose vendor call may hang
HangingTarget == 1

\* run and Start, which it calls
MainSteps == RunValidate \/ StartInitAWS \/ StartInitGCP \/ StartInitialPass \/ Exit

\* the running call of fetchAllPricing
PassSteps == Launch \/ PassReturn

\* the select of pollPricing
PollSteps == PollTick \/ PollStop

\* the fetches whose vendor call returns
VendorSteps ==
    \E p \in PassNumbers : \E k \in TargetSlots \ {HangingTarget} :
        ResolveFetch(FetchOf(p, k))

SchedulerFairness ==
    /\ WF_vars(MainSteps)
    /\ WF_vars(PassSteps)
    /\ WF_vars(PollSteps)
    /\ WF_vars(Tick)

VendorFairness == WF_vars(VendorSteps)

SpecHang == Init /\ [][Next]_vars /\ SchedulerFairness /\ VendorFairness

\* fetchAllPricing is running
PassRunning == fa.phase \in {"launch", "wait"}

\* fetchAllPricing has returned, or the process has ended
PassOver == fa.phase = "idle" \/ mainPc \in {"exited", "failed"}

\* C13: every pass that starts completes, so that pollPricing is back at
\* its select, even when the vendor call of one target never returns.
PassEventuallyCompletes == PassRunning ~> PassOver

\* a pass completes whenever the hanging target's call is not in flight
PassCompletesUnlessHung ==
    PassRunning ~> (PassOver \/ \E g \in inflight : g.k = HangingTarget)

(***************************************************************************)
(* The GCP composition, under SpecFetch.                                   *)
(***************************************************************************)
\* the machine type of the input, as parseMachineType resolves it
InputShape == parseMachineType(Chars(input.instanceType))

\* no priced SKU of the input's catalog matches dimension dim
NoMatch(dim) ==
    MatchPositions(dim, input.catalog, input.region, InputShape.family) = {}

\* C14: the GCP FetchPricing returns a price point exactly when the machine
\* type resolves and both lookups succeed, its TotalCost is then
\* corePrice * vcpus + memoryPrice * memoryGB, and when a lookup fails or
\* no SKU matches a dimension it returns an error and no price point.
AllOrNothing ==
    \A i \in 1..Len(runs) :
        input.provider = "gcp" =>
            LET r == runs[i] IN
            /\ r.res.ok <=> (InputShape.ok /\ r.vcpu.err = "" /\ r.mem.err = "")
            /\ r.res.ok =>
                  r.res.p.TotalCost =
                      r.vcpu.price * InputShape.vcpus
                          + (r.mem.price * InputShape.memoryGB) \div MemDen
            /\ ~r.res.ok => r.res.p = NoPricing /\ r.res.err # ""
            /\ (InputShape.ok /\ (NoMatch("core") \/ NoMatch("memory"))) => ~r.res.ok

\* the core lookup found a price, the memory lookup found no SKU, and
\* FetchPricing returned an error
AllOrNothingWitness ==
    /\ input.provider = "gcp"
    /\ Len(runs) > 0
    /\ InputShape.ok
    /\ runs[1].vcpu.err = ""
    /\ runs[1].vcpu.price > 0
    /\ NoMatch("memory")
    /\ runs[1].mem.err # ""
    /\ ~runs[1].res.ok

(***************************************************************************)
(* Shutdown, under Spec.                                                   *)
(***************************************************************************)
\* a step that enters fetchAllPricing
PassBegins == fa'.pass # fa.pass

\* C15: once the context is cancelled no step begins a fetch pass, even
\* when a tick is pending at the cancellation.
NoPassAfterCancel == [][ctxDone => ~PassBegins]_vars

(***************************************************************************)
(* The series a fetch writes, under Spec.                                  *)
(***************************************************************************)
\* the series RecordPricing(p) writes
PricingWrites(p) ==
    {<<"TotalCostPerHour", PricingLabels(p)>>}
        \cup (IF EmitsPerGB(p) THEN {<<"CostPerGBPerHour", PricingLabels(p)>>} ELSE {})
        \cup (IF EmitsPerVCPU(p) THEN {<<"CostPerVCPUPerHour", PricingLabels(p)>>} ELSE {})

\* the series the fetch of target k has written in the current pass
Writes(k) ==
    (IF calls[k].fail > 0 THEN {<<"PricingErrors", RegionLabels(k)>>} ELSE {})
        \cup (IF calls[k].price > 0
              THEN PricingWrites(calls[k].p) \cup {<<"LastUpdateTime", RegionLabels(k)>>}
              ELSE {})

\* C16: no two distinct targets of a pass write the same metric series.
DisjointWrites ==
    \A j, k \in DOMAIN calls : j # k => Writes(j) \cap Writes(k) = {}

(***************************************************************************)
(* parseMachineType on its own: it is run up to MaxRuns times against one  *)
(* identifier, built of a family, a class and a third token.               *)
(***************************************************************************)
ParseFamilies == {Chars("e2"), Chars("n2"), Chars("c3"), Chars("f1")}

ParseClasses ==
    {Chars("standard"), Chars("highmem"), Chars("highcpu"),
     <<"c", "u", "s", "t", "o", "m">>, <<"m", "i", "c", "r", "o">>}

ParseTokens ==
    {<<>>, <<"2">>, <<"4">>, <<"1", "6">>, <<"0", "2">>, <<"0">>, <<"x">>,
     <<"2", "x">>, <<"+", "2">>}

\* the identifiers of one, two and three dash-delimited tokens
MachineTypes ==
    ParseFamilies
        \cup {f \o Chars("-") \o c : f \in ParseFamilies, c \in ParseClasses}
        \cup {f \o Chars("-") \o c \o Chars("-") \o t :
                f \in ParseFamilies, c \in ParseClasses, t \in ParseTokens}

ParseInit ==
    /\ SchedIdle
    /\ input \in {[provider |-> "parse", machineType |-> mt] : mt \in MachineTypes}
    /\ runs = <<>>

\* one call of parseMachineType on the input
ParseRun ==
    /\ input.provider = "parse"
    /\ Len(runs) < MaxRuns
    /\ runs' = Append(runs, [shape |-> parseMachineType(input.machineType)])
    /\ UNCHANGED <<input, schedVars, metricVars>>

SpecParse == ParseInit /\ [][ParseRun]_vars

\* the identifiers of the switch on machineType, lines 227-238
FixedShapes ==
    {Chars("e2-micro"), Chars("e2-small"), Chars("e2-medium"),
     Chars("f1-micro"), Chars("g1-small")}

\* tok is a decimal numeral, with or without a plus sign, of a value above 0
IsPositiveInteger(tok) ==
    LET body == IF tok # <<>> /\ Head(tok) = "+" THEN Tail(tok) ELSE tok IN
    /\ body # <<>>
    /\ \A i \in 1..Len(body) : body[i] \in Digits
    /\ ScanDigits(body, 0) > 0

\* C17: outside the fixed table parseMachineType succeeds only on an
\* identifier whose third token is a positive integer, with vcpus > 0 and
\* memoryGB > 0; an identifier with fewer than two tokens, without a third
\* token, or with a third token that is not a positive integer is an error.
ThirdTokenPositiveInteger ==
    \A i \in 1..Len(runs) :
        (input.provider = "parse" /\ input.machineType \notin FixedShapes) =>
            LET parts == Split(input.machineType, "-")
                s == runs[i].shape
            IN
            /\ s.ok => /\ Len(parts) >= 3
                       /\ IsPositiveInteger(parts[3])
                       /\ s.vcpus > 0
                       /\ s.memoryGB > 0
            /\ (Len(parts) < 3 \/ ~IsPositiveInteger(parts[3])) => ~s.ok

(***************************************************************************)
(* The SKU matchers on their own: both are applied, up to MaxRuns times,   *)
(* to one SKU for one region and family, and getMemoryPrice is run on the  *)
(* catalog that holds this SKU alone.                                      *)
(***************************************************************************)
Descriptions ==
    {"N2 Instance Core running in Americas", "N2 Instance Ram running in Americas",
     "E2 Instance Core running in Americas", "E2 Instance Ram running in Americas",
     "N2 Custom Instance Core running in Americas",
     "Memory-optimized N2 Instance Core running in Americas",
     "Spot Preemptible N2 Instance Core running in Americas"}

RegionSets == {<<>>, <<"us-central1">>, <<"us-east1", "us-central1">>}

MatchInputs ==
    {[provider |-> "match", sku |-> Sku(d, rs, <<Rate(0, 5000000)>>),
      region |-> r, family |-> f] :
        d \in Descriptions, rs \in RegionSets,
        r \in {"us-central1", "us-east1"},
        f \in {Chars("e2"), Chars("n2"), Chars("n1"), Chars("c3")}}

MatchInit ==
    /\ SchedIdle
    /\ input \in MatchInputs
    /\ runs = <<>>

\* matchesVCPUSku and matchesMemorySku on the input, and the memory lookup
MatchRun ==
    /\ input.provider = "match"
    /\ Len(runs) < MaxRuns
    /\ runs' = Append(runs,
          [core |-> matchesVCPUSku(input.sku, input.region, input.family),
           memory |-> matchesMemorySku(input.sku, input.region, input.family),
           mem |-> getMemoryPrice(CatalogOf(<<<<input.sku>>>>, 0),
                                  input.region, input.family)])
    /\ UNCHANGED <<input, schedVars, metricVars>>

SpecMatch == MatchInit /\ [][MatchRun]_vars

\* the description holds a core/vCPU keyword, a RAM/memory keyword
HasCoreKeyword(sku) ==
    LET desc == ToLower(Chars(sku.Description)) IN
    Contains(desc, Chars("core")) \/ Contains(desc, Chars("vcpu"))

HasMemoryKeyword(sku) ==
    LET desc == ToLower(Chars(sku.Description)) IN
    Contains(desc, Chars("ram")) \/ Contains(desc, Chars("memory"))

\* C18: a SKU whose description holds a core/vCPU keyword is never matched
\* or selected for the memory price; a SKU is matched for memory only when
\* it holds a RAM/memory keyword and no core/vCPU keyword; no SKU is
\* matched for both dimensions.
ExclusiveClassification ==
    \A i \in 1..Len(runs) :
        input.provider = "match" =>
            /\ HasCoreKeyword(input.sku) => ~runs[i].memory /\ runs[i].mem.err # ""
            /\ runs[i].memory => HasMemoryKeyword(input.sku) /\ ~HasCoreKeyword(input.sku)
            /\ ~(runs[i].core /\ runs[i].memory)

=============================================================================
